---- MODULE Spec2Model ----
(***************************************************************************)
(* State-machine model of email_client.py (MiniMail+): the account store,  *)
(* the mailbox store, the two persisted JSON files and the two nested menu *)
(* loops.  Text is a sequence of one-character strings, so that strip(),   *)
(* lower(), split() and the substring test are computed, not assumed.      *)
(* Message dictionaries live in a heap of objects addressed by reference,  *)
(* so that copy() versus aliasing is observable.                           *)
(***************************************************************************)
EXTENDS Integers, Sequences, FiniteSets, TLC

\* ------------------------------------------------------------------ bounds
\* Number of message dicts alive at once, in the whole program (Spec) and in
\* the mail session of user a (SpecMail).
MaxObjs == 3
MailMaxObjs == 4
\* Largest reading of the wall clock (seconds) during the session.
MaxTime == 1
\* Number of message dicts alive at once in each of two processes (SpecTwo).
TwoMaxObjs == 2

\* ------------------------------------------------------------------- text
Space == " "

IsSpace(c) == c = Space

RECURSIVE lstrip(_)
lstrip(s) == IF s # <<>> /\ IsSpace(Head(s)) THEN lstrip(Tail(s)) ELSE s

RECURSIVE rstrip(_)
rstrip(s) ==
    IF s # <<>> /\ IsSpace(s[Len(s)]) THEN rstrip(SubSeq(s, 1, Len(s) - 1)) ELSE s

\* str.strip()
Strip(s) == rstrip(lstrip(s))

LowerChar(c) ==
    CASE c = "A" -> "a"
      [] c = "B" -> "b"
      [] c = "C" -> "c"
      [] c = "D" -> "d"
      [] c = "E" -> "e"
      [] c = "F" -> "f"
      [] c = "N" -> "n"
      [] c = "R" -> "r"
      [] c = "S" -> "s"
      [] c = "T" -> "t"
      [] OTHER -> c

\* A lower() that leaves the letters as typed.
Lower_AsTyped(s) == s

\* str.lower()
Lower(s) == [i \in DOMAIN s |-> LowerChar(s[i])]

\* k in s  (substring test on str)
Contains(k, s) ==
    \E i \in 0..(Len(s) - Len(k)) : SubSeq(s, i + 1, i + Len(k)) = k

\* s.startswith(p)
StartsWith(s, p) == Len(s) >= Len(p) /\ SubSeq(s, 1, Len(p)) = p

\* s.split(sep) for a one-character separator: never returns an empty list.
RECURSIVE SplitOn(_, _)
SplitOn(s, sep) ==
    IF \E i \in DOMAIN s : s[i] = sep
    THEN LET i == CHOOSE j \in DOMAIN s :
                      s[j] = sep /\ \A k \in 1..(j - 1) : s[k] # sep
         IN  <<SubSeq(s, 1, i - 1)>> \o SplitOn(SubSeq(s, i + 1, Len(s)), sep)
    ELSE <<s>>

\* s.split(): split on runs of whitespace, no empty pieces.
RECURSIVE SplitWS(_)
SplitWS(s) ==
    LET t == lstrip(s) IN
    IF t = <<>> THEN <<>>
    ELSE IF \E i \in DOMAIN t : IsSpace(t[i])
         THEN LET i == CHOOSE j \in DOMAIN t :
                           IsSpace(t[j]) /\ \A k \in 1..(j - 1) : ~IsSpace(t[k])
              IN  <<SubSeq(t, 1, i - 1)>> \o SplitWS(SubSeq(t, i + 1, Len(t)))
         ELSE <<t>>

Digits == <<"0", "1", "2", "3", "4", "5", "6", "7", "8", "9">>

IsDigit(c) == \E d \in DOMAIN Digits : Digits[d] = c

DigitVal(c) == (CHOOSE d \in DOMAIN Digits : Digits[d] = c) - 1

RECURSIVE DigitsVal(_)
DigitsVal(s) ==
    IF s = <<>> THEN 0 ELSE 10 * DigitsVal(SubSeq(s, 1, Len(s) - 1)) + DigitVal(s[Len(s)])

\* int(s): surrounding whitespace and one sign are accepted; anything else
\* raises ValueError.
ParseInt(s) ==
    LET t == Strip(s)
        signed == t # <<>> /\ Head(t) \in {"-", "+"}
        body == IF signed THEN Tail(t) ELSE t
    IN  IF body # <<>> /\ \A i \in DOMAIN body : IsDigit(body[i])
        THEN [ok |-> TRUE,
              val |-> IF signed /\ Head(t) = "-" THEN -DigitsVal(body) ELSE DigitsVal(body)]
        ELSE [ok |-> FALSE, val |-> 0]

\* ------------------------------------------------------------ input values
\* The value of `current_user` when nobody is logged in (Python None).
None == <<"None">>

Send == <<"s", "e", "n", "d">>
Draft == <<"d", "r", "a", "f", "t">>
Del == <<"d", "e", "l">>

\* What the user may type at the prompts; a compose is the three lines typed
\* for the recipients, the subject and the body.  Spec runs the whole program
\* from empty files, with every account operation and one kind of message;
\* SpecMail runs the mail operations of the registered user a, who writes to
\* a and to b.
FullInputs ==
    [usernames  |-> { <<"a">>, <<"b", " ">>, <<" ">> },
     passwords  |-> { <<"p">>, <<" ", "q">> },
     composes   |-> { << <<"a", ",", "b">>, <<"A", "b">>, <<>> >> },
     actions    |-> { Send, <<"x">> },
     keywords   |-> { <<"a">> },
     maxObjs    |-> MaxObjs]

MailInputs ==
    [usernames  |-> { <<"a">> },
     passwords  |-> { <<"p">> },
     composes   |-> { << <<"a">>, <<"A", "b">>, <<>> >>,
                      << <<" ", "a", ",">>, <<>>, <<" ", "c">> >>,
                      << <<"b", ",", " ", "a">>, <<"A", "b">>, <<>> >> },
     actions    |-> { Send, <<"D", "r", "a", "f", "t", " ">>, <<"x">> },
     keywords   |-> { <<>>, <<"A">>, <<"C", " ">> },
     maxObjs    |-> MailMaxObjs]

\* SpecTwo runs two processes on the same files: each may register b, log in
\* as a and send one message to b.
TwoInputs ==
    [usernames  |-> { <<"a">>, <<"b">> },
     passwords  |-> { <<"p">> },
     composes   |-> { << <<"b">>, <<"A">>, <<>> >> },
     actions    |-> { Send },
     keywords   |-> { <<"a">> },
     maxObjs    |-> TwoMaxObjs]

VARIABLES
    users,         \* dict username -> password (in memory)
    inboxes,       \* dict username -> {"inbox","drafts","sent"} lists of references
    heap,          \* reference -> message dict
    usersFile,     \* users.json
    inboxFile,     \* inboxes.json
    pc,            \* where the session is: "top"/"menu" wait for a menu choice,
                   \* "register"/"login" for a username, "top_back"/"menu_back" have
                   \* run a handler and go round the loop, "exited"
    current_user,  \* main_menu's current_user (None outside the logged-in menu)
    tries,         \* login()'s tries
    clock,         \* datetime.now() in seconds
    out,           \* the last handler run: what was typed and what it printed
    other          \* the memory of a second process started on the same two files,
                   \* while it waits for the processor (Absent when there is none)

vars == <<users, inboxes, heap, usersFile, inboxFile, pc, current_user, tries, clock, out,
          other>>

EmptyDict == [k \in {} |-> k]

Range(s) == {s[i] : i \in DOMAIN s}

Index(seq, x) == CHOOSE i \in DOMAIN seq : seq[i] = x

\* The usernames of the model, in a fixed order.
NameOrder == << <<>>, <<"a">>, <<"b">> >>

Put(d, k, v) == [x \in DOMAIN d \cup {k} |-> IF x = k THEN v ELSE d[x]]

\* One entry of the transcript.
Out(op, user, input, result, shown) ==
    [op |-> op, user |-> user, input |-> input, result |-> result, shown |-> shown]

\* ------------------------------------------------------------- persistence
\* A JSON document is a tree of tagged values; an object lists its members as
\* <<key, value>> pairs in the order they are written.  A message dict is a
\* record, whose keys are the six field names.
JsonStr(s) == [t |-> "string", v |-> s]

JsonBool(b) == [t |-> IF b THEN "true" ELSE "false", v |-> <<>>]

JsonArr(items) == [t |-> "array", v |-> items]

JsonObj(members) == [t |-> "object", v |-> members]

\* json.dump of a message dict; 'time' is the isoformat text of the reading.
JsonOfMessage(m) ==
    JsonObj(<< <<"from", JsonStr(m.from)>>,
               <<"to", JsonArr([i \in DOMAIN m.to |-> JsonStr(m.to[i])])>>,
               <<"subject", JsonStr(m.subject)>>,
               <<"body", JsonStr(m.body)>>,
               <<"time", JsonStr(m.time)>>,
               <<"read", JsonBool(m.read)>> >>)

JsonOfList(msgs) == JsonArr([i \in DOMAIN msgs |-> JsonOfMessage(msgs[i])])

\* json.dump of one mailbox, given as lists of message dicts.
JsonOfBox(box) ==
    JsonObj(<< <<"inbox", JsonOfList(box.inbox)>>,
               <<"drafts", JsonOfList(box.drafts)>>,
               <<"sent", JsonOfList(box.sent)>> >>)

\* The members of the account store from the i-th username on.
RECURSIVE UserMembers(_, _)
UserMembers(us, i) ==
    IF i > Len(NameOrder) THEN <<>>
    ELSE (IF NameOrder[i] \in DOMAIN us
          THEN << <<NameOrder[i], JsonStr(us[NameOrder[i]])>> >>
          ELSE <<>>)
         \o UserMembers(us, i + 1)

\* The members of the mailbox store from the i-th username on.
RECURSIVE BoxMembers(_, _)
BoxMembers(data, i) ==
    IF i > Len(NameOrder) THEN <<>>
    ELSE (IF NameOrder[i] \in DOMAIN data
          THEN << <<NameOrder[i], JsonOfBox(data[NameOrder[i]])>> >>
          ELSE <<>>)
         \o BoxMembers(data, i + 1)

\* json.load: objects become dicts (of a repeated key the last member
\* counts), arrays lists, strings str, true and false bool.
RECURSIVE PyOfJson(_)
PyOfJson(j) ==
    CASE j.t = "object" ->
           [k \in {j.v[i][1] : i \in DOMAIN j.v} |->
              PyOfJson(j.v[CHOOSE i \in DOMAIN j.v :
                              /\ j.v[i][1] = k
                              /\ \A l \in DOMAIN j.v : l > i => j.v[l][1] # k][2])]
      [] j.t = "array"  -> [i \in DOMAIN j.v |-> PyOfJson(j.v[i])]
      [] j.t = "string" -> j.v
      [] j.t = "true"   -> TRUE
      [] j.t = "false"  -> FALSE

\* json.dump of the account store: a dict of str -> str.
DumpUsers(us) == [exists |-> TRUE, data |-> JsonObj(UserMembers(us, 1))]

\* What json.dump walks in a mailbox: the dicts its lists refer to.
DumpBox(h, box) ==
    [inbox  |-> [i \in DOMAIN box.inbox  |-> h[box.inbox[i]]],
     drafts |-> [i \in DOMAIN box.drafts |-> h[box.drafts[i]]],
     sent   |-> [i \in DOMAIN box.sent   |-> h[box.sent[i]]]]

\* json.dump of the mailbox store.
DumpInboxes(h, boxes) ==
    [exists |-> TRUE,
     data   |-> JsonObj(BoxMembers([u \in DOMAIN boxes |-> DumpBox(h, boxes[u])], 1))]

NoFile == [exists |-> FALSE, data |-> JsonObj(<<>>)]

\* A load that finds nothing.
load_json_Empty(file) == EmptyDict

\* load_json: the saved mapping, or {} when the file does not exist.
load_json(file) == IF file.exists THEN PyOfJson(file.data) ELSE EmptyDict

\* A save that writes nothing.
save_json_Skip(file, dumped) == file

\* A save that keeps the members of the file the saved mapping does not have.
save_json_Merge(file, dumped) ==
    LET kept(m) == \A i \in DOMAIN dumped.data.v : dumped.data.v[i][1] # m[1]
    IN  [exists |-> TRUE,
         data   |-> JsonObj(SelectSeq(file.data.v, kept) \o dumped.data.v)]

\* save_json: the file is opened with 'w' and written in full.
save_json(file, dumped) == dumped

\* The dicts json.load creates for the mailboxes of the i-th to the last-th
\* username, mailbox by mailbox and list by list: every message is a dict of
\* its own.
RECURSIVE LoadedDicts(_, _, _)
LoadedDicts(data, i, last) ==
    IF i > last THEN <<>>
    ELSE (IF NameOrder[i] \in DOMAIN data
          THEN data[NameOrder[i]].inbox \o data[NameOrder[i]].drafts
               \o data[NameOrder[i]].sent
          ELSE <<>>)
         \o LoadedDicts(data, i + 1, last)

\* The loaded mailbox store: the lists refer to those dicts.
LoadInboxes(data) ==
    LET base(u) == Len(LoadedDicts(data, 1, Index(NameOrder, u) - 1))
        refs(n, from) == [i \in 1..n |-> from + i]
    IN  [heap  |-> LoadedDicts(data, 1, Len(NameOrder)),
         boxes |-> [u \in DOMAIN data |->
                      [inbox  |-> refs(Len(data[u].inbox), base(u)),
                       drafts |-> refs(Len(data[u].drafts), base(u) + Len(data[u].inbox)),
                       sent   |-> refs(Len(data[u].sent),
                                       base(u) + Len(data[u].inbox) + Len(data[u].drafts))]]]

\* main(), lines 442-443: both stores are loaded, then the top-level menu.
Loaded ==
    /\ users = load_json(usersFile)
    /\ inboxes = LoadInboxes(load_json(inboxFile)).boxes
    /\ heap = LoadInboxes(load_json(inboxFile)).heap
    /\ pc = "top"
    /\ current_user = None
    /\ tries = 0
    /\ clock = 0
    /\ out = Out("main", None, <<>>, "menu", <<>>)

\* What a process holds in memory: the two stores and the position of main().
Memory ==
    [users |-> users, inboxes |-> inboxes, heap |-> heap, pc |-> pc,
     current_user |-> current_user, tries |-> tries, out |-> out]

\* No second process.
Absent == [pc |-> "absent"]

\* First start: neither file exists.
Init ==
    /\ usersFile = NoFile
    /\ inboxFile = NoFile
    /\ Loaded
    /\ other = Absent

\* A start after a session that registered a and left no mail.
InitMail ==
    /\ usersFile = DumpUsers([u \in { <<"a">> } |-> <<"p">>])
    /\ inboxFile = NoFile
    /\ Loaded
    /\ other = Absent

\* Two processes started on the files of InitMail: both have run lines 442-443
\* before either changes anything.
InitTwo ==
    /\ usersFile = DumpUsers([u \in { <<"a">> } |-> <<"p">>])
    /\ inboxFile = NoFile
    /\ Loaded
    /\ other = Memory

\* ---------------------------------------------------------------- accounts
\* register_user without the test of line 56.
UsernameTaken_Never(us, username) == FALSE

\* register_user, line 56
UsernameTaken(us, username) == username \in DOMAIN us

\* ensure_user_box without its test: the mailbox is created anew each time.
ensure_user_box_Reset(username, boxes) ==
    Put(boxes, username, [inbox |-> <<>>, drafts |-> <<>>, sent |-> <<>>])

\* ensure_user_box
ensure_user_box(username, boxes) ==
    IF username \notin DOMAIN boxes
    THEN Put(boxes, username, [inbox |-> <<>>, drafts |-> <<>>, sent |-> <<>>])
    ELSE boxes

\* A budget of one attempt more.
MAX_TRIES_Off == 3 + 1

\* login(), line 79
MAX_TRIES == 3

\* main(), action == '2': register_user is entered.
ChooseRegister ==
    /\ pc = "top"
    /\ pc' = "register"
    /\ out' = Out("main", None, << <<"2">> >>, "register", <<>>)
    /\ UNCHANGED <<other, users, inboxes, heap, usersFile, inboxFile, current_user, tries, clock>>

\* register_user, lines 54-57: a taken username is refused and asked again.
RegisterTaken(in) ==
    /\ pc = "register"
    /\ \E raw \in in.usernames :
          /\ UsernameTaken(users, Strip(raw))
          /\ out' = Out("register_user", None, <<raw>>, "exists", <<>>)
    /\ UNCHANGED <<other, users, inboxes, heap, usersFile, inboxFile, pc, current_user, tries, clock>>

\* register_user, lines 55-63: a free username, then the password, then save.
RegisterDone(in) ==
    /\ pc = "register"
    /\ \E raw \in in.usernames, rawpw \in in.passwords :
          /\ ~UsernameTaken(users, Strip(raw))
          /\ users' = Put(users, Strip(raw), Strip(rawpw))
          /\ usersFile' = save_json(usersFile, DumpUsers(users'))
          /\ out' = Out("register_user", None, <<raw, rawpw>>, "registered", <<>>)
    /\ pc' = "top_back"
    /\ UNCHANGED <<other, inboxes, heap, inboxFile, current_user, tries, clock>>

\* main(), action == '1': login() is entered with tries = 0.
ChooseLogin ==
    /\ pc = "top"
    /\ pc' = "login"
    /\ tries' = 0
    /\ out' = Out("main", None, << <<"1">> >>, "login", <<>>)
    /\ UNCHANGED <<other, users, inboxes, heap, usersFile, inboxFile, current_user, clock>>

\* Where a failed attempt leaves the session: the loop goes on while
\* tries < MAX_TRIES, else login returns None and main() continues.
AfterFailedTry(t) == IF t < MAX_TRIES THEN "login" ELSE "top_back"

\* login(), lines 82-86: unknown username, no password is asked.
LoginUnknown(in) ==
    /\ pc = "login"
    /\ tries < MAX_TRIES
    /\ \E raw \in in.usernames :
          /\ Strip(raw) \notin DOMAIN users
          /\ out' = Out("login", None, <<raw>>, "unknown", <<>>)
    /\ tries' = tries + 1
    /\ pc' = AfterFailedTry(tries')
    /\ UNCHANGED <<other, users, inboxes, heap, usersFile, inboxFile, current_user, clock>>

\* login(), lines 87-93: known username, wrong password.
LoginWrong(in) ==
    /\ pc = "login"
    /\ tries < MAX_TRIES
    /\ \E raw \in in.usernames, rawpw \in in.passwords :
          /\ Strip(raw) \in DOMAIN users
          /\ users[Strip(raw)] # Strip(rawpw)
          /\ out' = Out("login", None, <<raw, rawpw>>, "wrong", <<>>)
    /\ tries' = tries + 1
    /\ pc' = AfterFailedTry(tries')
    /\ UNCHANGED <<other, users, inboxes, heap, usersFile, inboxFile, current_user, clock>>

\* login(), lines 87-90, then main(), lines 457-458: the mailbox of the
\* user is ensured and the logged-in menu entered.
LoginOk(in) ==
    /\ pc = "login"
    /\ tries < MAX_TRIES
    /\ \E raw \in in.usernames, rawpw \in in.passwords :
          /\ Strip(raw) \in DOMAIN users
          /\ users[Strip(raw)] = Strip(rawpw)
          /\ current_user' = Strip(raw)
          /\ inboxes' = ensure_user_box(Strip(raw), inboxes)
          /\ out' = Out("login", Strip(raw), <<raw, rawpw>>, "ok", <<>>)
    /\ pc' = "menu_back"
    /\ UNCHANGED <<other, users, heap, usersFile, inboxFile, tries, clock>>

\* --------------------------------------------------------------- mailboxes
\* The reference of a newly created dict: the first one not in use.
NewRef(h) ==
    CHOOSE r \in 1..(Cardinality(DOMAIN h) + 1) :
        r \notin DOMAIN h /\ \A q \in 1..(r - 1) : q \in DOMAIN h

\* Every reference held by a list of a mailbox, mailbox by mailbox.
RECURSIVE RefsFrom(_, _)
RefsFrom(boxes, i) ==
    IF i > Len(NameOrder) THEN <<>>
    ELSE (IF NameOrder[i] \in DOMAIN boxes
          THEN boxes[NameOrder[i]].inbox \o boxes[NameOrder[i]].drafts
               \o boxes[NameOrder[i]].sent
          ELSE <<>>)
         \o RefsFrom(boxes, i + 1)

RECURSIVE Uniq(_, _)
Uniq(seq, seen) ==
    IF seq = <<>> THEN <<>>
    ELSE IF Head(seq) \in seen THEN Uniq(Tail(seq), seen)
         ELSE <<Head(seq)>> \o Uniq(Tail(seq), seen \cup {Head(seq)})

\* The store after a handler: a dict no list refers to any more is
\* reclaimed, and the dicts are numbered in the order the mailboxes hold them
\* (an address is not observable, so stores that differ only in addresses
\* are one state).
Collect(h, boxes) ==
    LET live == Uniq(RefsFrom(boxes, 1), {})
        ren(seq) == [i \in DOMAIN seq |-> Index(live, seq[i])]
    IN  [heap  |-> [i \in DOMAIN live |-> h[live[i]]],
         boxes |-> [u \in DOMAIN boxes |->
                      [inbox  |-> ren(boxes[u].inbox),
                       drafts |-> ren(boxes[u].drafts),
                       sent   |-> ren(boxes[u].sent)]]]

\* compose_email, lines 158-159: split on commas, strip, drop empty pieces.
RECURSIVE StripAll(_)
StripAll(parts) ==
    IF parts = <<>> THEN <<>>
    ELSE (IF Strip(Head(parts)) # <<>> THEN <<Strip(Head(parts))>> ELSE <<>>)
         \o StripAll(Tail(parts))

ParseRecipients(raw) == StripAll(SplitOn(Strip(raw), ","))

\* An email dict that does not name its sender.
compose_email_Unsigned(sender, rawTo, rawSubject, rawBody, now) ==
    [from    |-> None,
     to      |-> ParseRecipients(rawTo),
     subject |-> Strip(rawSubject),
     body    |-> Strip(rawBody),
     time    |-> now,
     read    |-> FALSE]

\* compose_email, lines 160-170: the email dict.
compose_email(sender, rawTo, rawSubject, rawBody, now) ==
    [from    |-> sender,
     to      |-> ParseRecipients(rawTo),
     subject |-> Strip(rawSubject),
     body    |-> Strip(rawBody),
     time    |-> now,
     read    |-> FALSE]

\* append(email) in place of append(email.copy()): the same dict is shared.
CopyRef_Alias(h, r) == r

\* email.copy() / draft.copy(): the reference of the dict that is appended
\* to a recipient's inbox, a new dict.
CopyRef(h, r) == NewRef(h)

\* send_email, lines 189-191, and view_drafts, lines 297-299: the loop over
\* the recipients.
RECURSIVE Deliver(_, _, _, _)
Deliver(h, boxes, r, recipients) ==
    IF recipients = <<>> THEN [heap |-> h, boxes |-> boxes]
    ELSE LET u  == Head(recipients)
             b1 == ensure_user_box(u, boxes)
             c  == CopyRef(h, r)
             h1 == Put(h, c, h[r])
             b2 == [b1 EXCEPT ![u].inbox = Append(@, c)]
         IN  Deliver(h1, b2, r, Tail(recipients))

\* sorted(seq, key=lambda m: m['time'], reverse=...): a stable sort; with
\* reverse=True equal keys also keep their original order.
\* The result lists the storage positions (1-based) of the elements of seq in
\* display order; keys[p] is the 'time' of the element stored at position p.
\* A sort that puts an element before the earlier ones of the same key.
Before_Strict(keys, x, y, reverse) ==
    IF reverse THEN keys[x] > keys[y] ELSE keys[x] < keys[y]

Before(keys, x, y, reverse) ==
    IF reverse THEN keys[x] >= keys[y] ELSE keys[x] <= keys[y]

RECURSIVE InsertSorted(_, _, _, _)
InsertSorted(keys, done, x, reverse) ==
    IF done = <<>> THEN <<x>>
    ELSE IF Before(keys, Head(done), x, reverse)
         THEN <<Head(done)>> \o InsertSorted(keys, Tail(done), x, reverse)
         ELSE <<x>> \o done

RECURSIVE SortInto(_, _, _, _)
SortInto(keys, done, p, reverse) ==
    IF p > Len(keys) THEN done
    ELSE SortInto(keys, InsertSorted(keys, done, p, reverse), p + 1, reverse)

sorted(h, seq, reverse) ==
    SortInto([p \in DOMAIN seq |-> h[seq[p]].time], <<>>, 1, reverse)

\* view_inbox, line 230: msg['read'] = True on every listed dict.
MarkRead(h, listed) ==
    [r \in DOMAIN h |-> IF r \in Range(listed) THEN [h[r] EXCEPT !.read = TRUE] ELSE h[r]]

\* A pop that takes the last element whatever the index.
PyPop_Last(seq, index) ==
    IF seq # <<>>
    THEN [ok |-> TRUE, item |-> seq[Len(seq)], rest |-> SubSeq(seq, 1, Len(seq) - 1)]
    ELSE [ok |-> FALSE, item |-> 0, rest |-> seq]

\* list.pop(index): a negative index counts from the end; outside -n..n-1
\* it raises IndexError.
PyPop(seq, index) ==
    LET n == Len(seq)
        pos == IF index < 0 THEN n + index + 1 ELSE index + 1
    IN  IF -n <= index /\ index < n
        THEN [ok |-> TRUE, item |-> seq[pos],
              rest |-> SubSeq(seq, 1, pos - 1) \o SubSeq(seq, pos + 1, n)]
        ELSE [ok |-> FALSE, item |-> 0, rest |-> seq]

\* The test of line 337 without its lower bound.
InRange_NoLower(index, n) == index < n

\* delete_email, line 337
InRange(index, n) == 0 <= index /\ index < n

\* The test of line 364 on the subject alone.
Matches_SubjectOnly(keyword, msg) == Contains(keyword, Lower(msg.subject))

\* search_emails, line 364
Matches(keyword, msg) ==
    Contains(keyword, Lower(msg.subject)) \/ Contains(keyword, Lower(msg.body))

\* search_emails, lines 362-365
RECURSIVE SearchFrom(_, _, _, _)
SearchFrom(h, inbox, keyword, i) ==
    IF i > Len(inbox) THEN <<>>
    ELSE (IF Matches(keyword, h[inbox[i]]) THEN << <<i - 1, h[inbox[i]]>> >> ELSE <<>>)
         \o SearchFrom(h, inbox, keyword, i + 1)

\* The text of an integer between -9 and 9.
IntToken(i) == IF i < 0 THEN <<"-", Digits[1 - i]>> ELSE <<Digits[i + 1]>>

\* view_drafts, lines 293-295 and 304-306: the branch taken and the index
\* read from the second word of the choice, when there is one and it is an int.
ParseChoice(choice) ==
    LET tokens == SplitWS(choice) IN
    [send  |-> StartsWith(choice, Send),
     del   |-> StartsWith(choice, Del),
     index |-> IF Len(tokens) >= 2 THEN ParseInt(tokens[2]) ELSE [ok |-> FALSE, val |-> 0]]

\* What the user may type at the index prompt of delete_email.
IndexInputs(n) ==
    {IntToken(i) : i \in (-1)..n} \cup { <<"x">>, <<" ", "0">> }

\* What the user may type at the follow-up prompt of view_drafts.
DraftChoices(n) ==
    {Send \o <<" ">> \o IntToken(i) : i \in (-1)..n}
    \cup {Del \o <<" ">> \o IntToken(i) : i \in (-1)..n}
    \cup { Send \o <<" ">>, Del \o <<" ", "x">>, <<"c", "a", "n", "c", "e", "l">> }

\* The readings of the clock a compose may take.
Nows == {t \in {clock, clock + 1} : t <= MaxTime}

\* main_menu, choice '1': view_inbox.
ViewInbox ==
    /\ pc = "menu"
    /\ pc' = "menu_back"
    /\ LET boxes == ensure_user_box(current_user, inboxes)
           inbox == boxes[current_user].inbox
           shown == sorted(heap, inbox, FALSE)
       IN  /\ inboxes' = boxes
           /\ IF inbox = <<>>
              THEN /\ heap' = heap
                   /\ out' = Out("view_inbox", current_user, <<>>, "empty", <<>>)
              ELSE /\ heap' = MarkRead(heap, inbox)
                   /\ out' = Out("view_inbox", current_user, <<>>, "listed", shown)
    /\ UNCHANGED <<other, users, usersFile, inboxFile, current_user, tries, clock>>

\* main_menu, choice '2': send_email (compose_email, then send or draft).
SendEmail(in) ==
    /\ pc = "menu"
    /\ pc' = "menu_back"
    /\ \E typed \in in.composes, rawAction \in in.actions, now \in Nows :
          LET email      == compose_email(current_user, typed[1], typed[2], typed[3], now)
              recipients == email.to
              action     == Lower(Strip(rawAction))
              r          == NewRef(heap)
              h0         == Put(heap, r, email)
              b0         == ensure_user_box(current_user, inboxes)
          IN  /\ Cardinality(DOMAIN heap)
                    + (IF action = Send THEN 1 + Len(recipients) ELSE 1) <= in.maxObjs
              /\ clock' = now
              /\ IF action = Send
                 THEN LET d == Deliver(h0, b0, r, recipients)
                          c == Collect(d.heap,
                                       [d.boxes EXCEPT ![current_user].sent = Append(@, r)])
                      IN  /\ heap' = c.heap
                          /\ inboxes' = c.boxes
                          /\ out' = Out("send_email", current_user,
                                        <<rawAction>>, "sent", <<>>)
                 ELSE IF action = Draft
                 THEN LET c == Collect(h0, [b0 EXCEPT ![current_user].drafts = Append(@, r)])
                      IN  /\ heap' = c.heap
                          /\ inboxes' = c.boxes
                          /\ out' = Out("send_email", current_user,
                                        <<rawAction>>, "draft", <<>>)
                 ELSE /\ heap' = heap
                      /\ inboxes' = b0
                      /\ out' = Out("send_email", current_user,
                                    <<rawAction>>, "invalid", <<>>)
    /\ UNCHANGED <<other, users, usersFile, inboxFile, current_user, tries>>

\* main_menu, choice '3': view_drafts and its follow-up action.
ViewDrafts(in) ==
    /\ pc = "menu"
    /\ pc' = "menu_back"
    /\ LET boxes  == ensure_user_box(current_user, inboxes)
           drafts == boxes[current_user].drafts
       IN  IF drafts = <<>>
           THEN /\ inboxes' = boxes
                /\ heap' = heap
                /\ out' = Out("view_drafts", current_user, <<>>, "none", <<>>)
           ELSE \E choice \in DraftChoices(Len(drafts)) :
                  LET parsed == ParseChoice(Strip(choice))
                      index  == parsed.index
                      popped == IF index.ok THEN PyPop(drafts, index.val)
                                ELSE [ok |-> FALSE, item |-> 0, rest |-> drafts]
                      b1     == [boxes EXCEPT ![current_user].drafts = popped.rest]
                  IN  IF parsed.send
                      THEN IF popped.ok
                           THEN LET d == Deliver(heap, b1, popped.item, heap[popped.item].to)
                                    s == Collect(d.heap,
                                                 [d.boxes EXCEPT ![current_user].sent =
                                                                   Append(@, popped.item)])
                                IN  /\ Cardinality(DOMAIN heap) + Len(heap[popped.item].to)
                                          <= in.maxObjs
                                    /\ heap' = s.heap
                                    /\ inboxes' = s.boxes
                                    /\ out' = Out("view_drafts", current_user, <<choice>>,
                                                  "sent", <<>>)
                           ELSE /\ inboxes' = boxes
                                /\ heap' = heap
                                /\ out' = Out("view_drafts", current_user, <<choice>>,
                                              "invalid", <<>>)
                      ELSE IF parsed.del
                      THEN IF popped.ok
                           THEN /\ inboxes' = Collect(heap, b1).boxes
                                /\ heap' = Collect(heap, b1).heap
                                /\ out' = Out("view_drafts", current_user, <<choice>>,
                                              "deleted", <<>>)
                           ELSE /\ inboxes' = boxes
                                /\ heap' = heap
                                /\ out' = Out("view_drafts", current_user, <<choice>>,
                                              "invalid", <<>>)
                      ELSE /\ inboxes' = boxes
                           /\ heap' = heap
                           /\ out' = Out("view_drafts", current_user, <<choice>>,
                                         "cancelled", <<>>)
    /\ UNCHANGED <<other, users, usersFile, inboxFile, current_user, tries, clock>>

\* main_menu, choice '4': view_sent.
ViewSent ==
    /\ pc = "menu"
    /\ pc' = "menu_back"
    /\ LET boxes == ensure_user_box(current_user, inboxes)
           sent  == boxes[current_user].sent
       IN  /\ inboxes' = boxes
           /\ out' = Out("view_sent", current_user, <<>>,
                         IF sent = <<>> THEN "empty" ELSE "listed", sorted(heap, sent, TRUE))
    /\ UNCHANGED <<other, users, heap, usersFile, inboxFile, current_user, tries, clock>>

\* main_menu, choice '5': delete_email (which lists the inbox first).
DeleteEmail ==
    /\ pc = "menu"
    /\ pc' = "menu_back"
    /\ LET boxes == ensure_user_box(current_user, inboxes)
           inbox == boxes[current_user].inbox
           shown == sorted(heap, inbox, FALSE)
           h1    == MarkRead(heap, inbox)
       IN  IF inbox = <<>>
           THEN /\ inboxes' = boxes
                /\ heap' = heap
                /\ out' = Out("delete_email", current_user, <<>>, "empty", <<>>)
           ELSE \E token \in IndexInputs(Len(inbox)) :
                  LET index == ParseInt(token) IN
                  IF index.ok
                  THEN IF InRange(index.val, Len(inbox))
                       THEN LET popped == PyPop(inbox, index.val)
                                b1 == [boxes EXCEPT ![current_user].inbox = popped.rest]
                            IN  /\ inboxes' = Collect(h1, b1).boxes
                                /\ heap' = Collect(h1, b1).heap
                                /\ out' = Out("delete_email", current_user, <<token>>,
                                              IF popped.ok THEN "deleted" ELSE "IndexError",
                                              shown)
                       ELSE /\ inboxes' = boxes
                            /\ heap' = h1
                            /\ out' = Out("delete_email", current_user, <<token>>,
                                          "invalid index", shown)
                  ELSE /\ inboxes' = boxes
                       /\ heap' = h1
                       /\ out' = Out("delete_email", current_user, <<token>>,
                                     "not a number", shown)
    /\ UNCHANGED <<other, users, usersFile, inboxFile, current_user, tries, clock>>

\* main_menu, choice '6': search_emails.
SearchEmails(in) ==
    /\ pc = "menu"
    /\ pc' = "menu_back"
    /\ \E raw \in in.keywords :
          LET boxes   == ensure_user_box(current_user, inboxes)
              keyword == Lower(Strip(raw))
              results == SearchFrom(heap, boxes[current_user].inbox, keyword, 1)
          IN  /\ inboxes' = boxes
              /\ out' = Out("search_emails", current_user, <<raw>>,
                            IF results = <<>> THEN "none" ELSE "found", results)
    /\ UNCHANGED <<other, users, heap, usersFile, inboxFile, current_user, tries, clock>>

\* change_password without the test of line 113.
OldPasswordOk_Always(us, username, old_password) == TRUE

\* change_password, line 113: users.get(username) against the typed password.
OldPasswordOk(us, username, old_password) ==
    username \in DOMAIN us /\ us[username] = old_password

\* main_menu, choice '7': change_password.
ChangePassword(in) ==
    /\ pc = "menu"
    /\ pc' = "menu_back"
    /\ \E rawold \in in.passwords, rawnew \in in.passwords :
          IF ~OldPasswordOk(users, current_user, Strip(rawold))
          THEN /\ users' = users
               /\ usersFile' = usersFile
               /\ out' = Out("change_password", current_user, <<rawold>>, "incorrect", <<>>)
          ELSE /\ users' = Put(users, current_user, Strip(rawnew))
               /\ usersFile' = save_json(usersFile, DumpUsers(users'))
               /\ out' = Out("change_password", current_user, <<rawold, rawnew>>,
                             "updated", <<>>)
    /\ UNCHANGED <<other, inboxes, heap, inboxFile, current_user, tries, clock>>

\* main_menu, choice '8': back to the top-level menu.
SwitchUser ==
    /\ pc = "menu"
    /\ pc' = "top_back"
    /\ current_user' = None
    /\ out' = Out("main_menu", current_user, << <<"8">> >>, "switch", <<>>)
    /\ UNCHANGED <<other, users, inboxes, heap, usersFile, inboxFile, tries, clock>>

\* A choice '9' that saves both stores and goes round the loop again.
MenuExit_Stay ==
    /\ pc = "menu"
    /\ inboxFile' = save_json(inboxFile, DumpInboxes(heap, inboxes))
    /\ usersFile' = save_json(usersFile, DumpUsers(users))
    /\ pc' = "menu_back"
    /\ out' = Out("main_menu", current_user, << <<"9">> >>, "exit", <<>>)
    /\ UNCHANGED <<other, users, inboxes, heap, current_user, tries, clock>>

\* main_menu, choice '9': both stores are saved and the process exits.
MenuExit ==
    /\ pc = "menu"
    /\ inboxFile' = save_json(inboxFile, DumpInboxes(heap, inboxes))
    /\ usersFile' = save_json(usersFile, DumpUsers(users))
    /\ pc' = "exited"
    /\ out' = Out("main_menu", current_user, << <<"9">> >>, "exit", <<>>)
    /\ UNCHANGED <<other, users, inboxes, heap, current_user, tries, clock>>

\* main(), action == '3': both stores are saved and the loop is left.
TopExit ==
    /\ pc = "top"
    /\ inboxFile' = save_json(inboxFile, DumpInboxes(heap, inboxes))
    /\ usersFile' = save_json(usersFile, DumpUsers(users))
    /\ pc' = "exited"
    /\ out' = Out("main", None, << <<"3">> >>, "exit", <<>>)
    /\ UNCHANGED <<other, users, inboxes, heap, current_user, tries, clock>>

\* Any other choice at either menu: "Invalid choice. Try again."
InvalidChoice ==
    /\ pc \in {"top", "menu"}
    /\ pc' = IF pc = "top" THEN "top_back" ELSE "menu_back"
    /\ out' = Out(IF pc = "top" THEN "main" ELSE "main_menu", current_user,
                  << <<"x">> >>, "invalid choice", <<>>)
    /\ UNCHANGED <<other, users, inboxes, heap, usersFile, inboxFile, current_user, tries, clock>>

\* main(), lines 445-451: the top-level menu is printed and a choice awaited.
TopMenu ==
    /\ pc = "top_back"
    /\ pc' = "top"
    /\ out' = Out("main", None, <<>>, "menu", <<>>)
    /\ UNCHANGED <<other, users, inboxes, heap, usersFile, inboxFile, current_user, tries, clock>>

\* main_menu, lines 396-411: the menu is printed and a choice awaited.
MainMenu ==
    /\ pc = "menu_back"
    /\ pc' = "menu"
    /\ out' = Out("main_menu", current_user, <<>>, "menu", <<>>)
    /\ UNCHANGED <<other, users, inboxes, heap, usersFile, inboxFile, current_user, tries, clock>>

\* The whole program, from empty files.
Next ==
    \/ ChooseRegister
    \/ RegisterTaken(FullInputs)
    \/ RegisterDone(FullInputs)
    \/ ChooseLogin
    \/ LoginUnknown(FullInputs)
    \/ LoginWrong(FullInputs)
    \/ LoginOk(FullInputs)
    \/ ViewInbox
    \/ SendEmail(FullInputs)
    \/ ViewDrafts(FullInputs)
    \/ ViewSent
    \/ DeleteEmail
    \/ SearchEmails(FullInputs)
    \/ ChangePassword(FullInputs)
    \/ SwitchUser
    \/ MenuExit
    \/ TopExit
    \/ InvalidChoice
    \/ TopMenu
    \/ MainMenu

Spec == Init /\ [][Next]_vars

\* The mail operations of the registered user a.
NextMail ==
    \/ ChooseLogin
    \/ LoginOk(MailInputs)
    \/ ViewInbox
    \/ SendEmail(MailInputs)
    \/ ViewDrafts(MailInputs)
    \/ ViewSent
    \/ DeleteEmail
    \/ SearchEmails(MailInputs)
    \/ SwitchUser
    \/ TopMenu
    \/ MainMenu

SpecMail == InitMail /\ [][NextMail]_vars

\* The processor passes from one process to the other, which has not ended:
\* the memory of the running one is set aside and that of the other resumed.
\* The files and the wall clock are shared.
RunOther ==
    /\ other # Absent
    /\ other.pc # "exited"
    /\ users' = other.users
    /\ inboxes' = other.inboxes
    /\ heap' = other.heap
    /\ pc' = other.pc
    /\ current_user' = other.current_user
    /\ tries' = other.tries
    /\ out' = other.out
    /\ other' = Memory
    /\ UNCHANGED <<usersFile, inboxFile, clock>>

\* Two processes on the same storage paths.
NextTwo ==
    \/ ChooseRegister
    \/ RegisterTaken(TwoInputs)
    \/ RegisterDone(TwoInputs)
    \/ ChooseLogin
    \/ LoginOk(TwoInputs)
    \/ SendEmail(TwoInputs)
    \/ SwitchUser
    \/ MenuExit
    \/ TopExit
    \/ TopMenu
    \/ MainMenu
    \/ RunOther

SpecTwo == InitTwo /\ [][NextTwo]_vars

\* ------------------------------------------------------------------ claims
Names == Range(NameOrder)

EmptyBox == [inbox |-> <<>>, drafts |-> <<>>, sent |-> <<>>]

\* The three lists of u as message values, before and after a step; a user
\* without a mailbox has three empty lists.
Lists(u) == DumpBox(heap, IF u \in DOMAIN inboxes THEN inboxes[u] ELSE EmptyBox)
ListsAfter(u) == DumpBox(heap', IF u \in DOMAIN inboxes' THEN inboxes'[u] ELSE EmptyBox)

Distinct(seq) == \A i, j \in DOMAIN seq : seq[i] = seq[j] => i = j

\* C1: a compose with action "send" by the logged-in user s to a list R of
\* distinct usernames appends exactly one entry to sent[s] and to inbox[r] for
\* every r in R, and changes no other list of any mailbox.
C1_SendDelivery ==
    [][(out'.op = "send_email" /\ Lower(Strip(out'.input[1])) = Send) =>
          LET s == out'.user
              sent == ListsAfter(s).sent
              msg == sent[Len(sent)]
          IN  /\ sent # <<>>
              /\ Distinct(msg.to) =>
                   /\ sent = Append(Lists(s).sent, msg)
                   /\ msg.from = s /\ msg.read = FALSE
                   /\ \A u \in Names :
                        /\ ListsAfter(u).inbox = IF u \in Range(msg.to)
                                                 THEN Append(Lists(u).inbox, msg)
                                                 ELSE Lists(u).inbox
                        /\ ListsAfter(u).drafts = Lists(u).drafts
                        /\ u # s => ListsAfter(u).sent = Lists(u).sent
                   /\ DOMAIN inboxes' \subseteq Names]_vars

\* C1 witness: a was sent a message by a, to b and a, while sent[a] already
\* held an earlier message.
C1_Witness ==
    /\ out.op = "send_email" /\ out.result = "sent"
    /\ Len(Lists(out.user).sent) = 2
    /\ Lists(out.user).sent[2].to = << <<"b">>, <<"a">> >>
    /\ Len(Lists(<<"b">>).inbox) = 1

\* C2: listing the inbox of u (directly or at the start of a delete) changes
\* no message of any other inbox and no message of any sent list.
C2_CopyIndependence ==
    [][(out'.op \in {"view_inbox", "delete_email"}) =>
          \A v \in Names :
             /\ v # out'.user => ListsAfter(v).inbox = Lists(v).inbox
             /\ ListsAfter(v).sent = Lists(v).sent]_vars

\* C2 witness: a has listed an inbox holding a message a sent to b and a; the
\* copy in sent[a] and the copy in inbox[b] are still unread.
C2_Witness ==
    /\ out.op = "view_inbox" /\ out.result = "listed"
    /\ \E i \in DOMAIN Lists(<<"a">>).inbox, j \in DOMAIN Lists(<<"a">>).sent,
          k \in DOMAIN Lists(<<"b">>).inbox :
          /\ Lists(<<"a">>).inbox[i].read
          /\ Lists(<<"a">>).inbox[i] = [Lists(<<"a">>).sent[j] EXCEPT !.read = TRUE]
          /\ ~Lists(<<"a">>).sent[j].read
          /\ Lists(<<"b">>).inbox[k] = Lists(<<"a">>).sent[j]

\* C3: one login reads at most 3 attempts; an unknown username (no password
\* asked) and a wrong password each use up one of them; the first attempt with
\* a known username and its password enters the logged-in menu as that user
\* at once; the third failure returns to the top-level menu with no identity;
\* no attempt changes the account store or an existing mailbox.
C3_LoginBudget ==
    /\ [](pc = "login" => tries \in 0..2)
    /\ [][pc = "login" =>
            LET typed == out'.input
                name == Strip(typed[1])
                known == name \in DOMAIN users
                good == known /\ Len(typed) = 2 /\ users[name] = Strip(typed[2])
            IN  /\ out'.op = "login"
                /\ ~known => Len(typed) = 1
                /\ known => Len(typed) = 2
                /\ good => /\ pc' = "menu_back"
                           /\ current_user' = name
                /\ ~good => /\ tries' = tries + 1
                            /\ current_user' = None
                            /\ pc' = IF tries' = 3 THEN "top_back" ELSE "login"
                /\ users' = users /\ usersFile' = usersFile
                /\ heap' = heap
                /\ \A u \in DOMAIN inboxes : inboxes'[u] = inboxes[u]]_vars

\* C3 witness: the third failed attempt has sent the session back to the
\* top-level menu.
C3_Witness ==
    pc = "top_back" /\ out.op = "login" /\ out.result = "wrong" /\ tries = 3

\* C4: a registration attempt with a username that is a key of the account
\* store changes nothing and asks again; a completed registration adds exactly
\* one new username and changes no other entry.
C4_DuplicateRegistration ==
    [][pc = "register" =>
          LET name == Strip(out'.input[1]) IN
          /\ \A u \in DOMAIN users : u \in DOMAIN users' /\ users'[u] = users[u]
          /\ IF name \in DOMAIN users
             THEN users' = users /\ usersFile' = usersFile /\ pc' = "register"
             ELSE DOMAIN users' = DOMAIN users \cup {name} /\ pc' = "top_back"]_vars

\* C4 witness: a taken username was typed, with surrounding whitespace, and
\* refused.
C4_Witness ==
    /\ pc = "register" /\ out.op = "register_user" /\ out.result = "exists"
    /\ out.input[1] = <<"b", " ">>

\* C5: the empty string is never a key of the account store.
C5_NoEmptyUsername == <<>> \notin DOMAIN users

\* The messages of a list with their read flag set.
AllRead(msgs) == [i \in DOMAIN msgs |-> [msgs[i] EXCEPT !.read = TRUE]]

RemoveAt(seq, p) == SubSeq(seq, 1, p - 1) \o SubSeq(seq, p + 1, Len(seq))

\* C6: view_inbox shows every message of the inbox once, in non-decreasing
\* order of time, messages of equal time in storage order; afterwards every
\* message of the inbox is read, and the storage order and the other fields are
\* as before.  (The listing gives the storage position of each line.)
C6_ListInbox ==
    [][out'.op = "view_inbox" =>
          LET u == out'.user
              inbox == Lists(u).inbox
              shown == out'.shown
          IN  /\ Len(shown) = Len(inbox)
              /\ \A p \in DOMAIN inbox : \E i \in DOMAIN shown : shown[i] = p
              /\ \A i, j \in DOMAIN shown :
                    i < j => \/ inbox[shown[i]].time < inbox[shown[j]].time
                             \/ /\ inbox[shown[i]].time = inbox[shown[j]].time
                                /\ shown[i] < shown[j]
              /\ ListsAfter(u).inbox = AllRead(inbox)]_vars

\* C6 witness: an inbox of two messages stored newest first has been listed
\* oldest first.
C6_Witness ==
    /\ out.op = "view_inbox" /\ out.shown = <<2, 1>>
    /\ Lists(out.user).inbox[1].time > Lists(out.user).inbox[2].time

\* What the text typed at an index prompt denotes: an integer, or nothing.
Denotes(token, i) == token = IntToken(i) \/ (i = 0 /\ token = <<" ", "0">>)

\* C7: delete_email with an integer i, 0 <= i < n, removes exactly the
\* message stored at position i of the inbox and keeps the others in order;
\* with any other integer or a non-numeric text the inbox holds the same
\* messages in the same order; no drafts list, no sent list and no other inbox
\* changes.  (The messages are compared up to their read flag, which the
\* listing that precedes the prompt sets.)
C7_DeleteByIndex ==
    [][(out'.op = "delete_email" /\ out'.input # <<>>) =>
          LET u == out'.user
              inbox == Lists(u).inbox
              n == Len(inbox)
              token == out'.input[1]
          IN  /\ \A i \in (-9)..9 :
                    Denotes(token, i) =>
                       ListsAfter(u).inbox = IF 0 <= i /\ i < n
                                             THEN RemoveAt(AllRead(inbox), i + 1)
                                             ELSE AllRead(inbox)
              /\ (\A i \in (-9)..9 : ~Denotes(token, i)) =>
                    ListsAfter(u).inbox = AllRead(inbox)
              /\ \A v \in Names :
                    /\ ListsAfter(v).drafts = Lists(v).drafts
                    /\ ListsAfter(v).sent = Lists(v).sent
                    /\ v # u => ListsAfter(v).inbox = Lists(v).inbox]_vars

\* C7 witness: index 0 of an inbox of two different messages was deleted.
C7_Witness ==
    /\ out.op = "delete_email" /\ out.result = "deleted"
    /\ out.input = << <<"0">> >> /\ Len(out.shown) = 2
    /\ Len(Lists(out.user).inbox) = 1
    /\ Lists(out.user).inbox[1].subject = <<>>

\* The follow-up choices of view_drafts that name no draft among n: an index
\* outside 0..n-1, a text that is no number, or no index.
BadDraftChoices(n) ==
    {Send \o <<" ">> \o IntToken(i) : i \in ((-9)..9) \ (0..(n - 1))}
    \cup {Del \o <<" ">> \o IntToken(i) : i \in ((-9)..9) \ (0..(n - 1))}
    \cup { Send \o <<" ">>, Del \o <<" ", "x">> }

\* C8: `send <index>` or `del <index>` with a bad index is reported as an
\* error and leaves the drafts list, every inbox and every sent list unchanged.
C8_BadDraftIndex ==
    [][(/\ out'.op = "view_drafts" /\ out'.input # <<>>
        /\ out'.input[1] \in BadDraftChoices(Len(Lists(out'.user).drafts))) =>
          /\ out'.result = "invalid"
          /\ \A v \in Names : ListsAfter(v) = Lists(v)]_vars

\* C9: search_emails returns exactly the pairs (i, m), m the message stored
\* at position i of the inbox, for which the typed keyword, trimmed and
\* lower-cased, is a substring of the lower-cased subject or body of m, by
\* increasing i; the empty keyword returns every message; nothing changes.
C9_Search ==
    [][out'.op = "search_emails" =>
          LET u == out'.user
              inbox == Lists(u).inbox
              keyword == Lower(Strip(out'.input[1]))
              found == out'.shown
              hit(i) == \/ Contains(keyword, Lower(inbox[i + 1].subject))
                        \/ Contains(keyword, Lower(inbox[i + 1].body))
          IN  /\ \A k \in DOMAIN found :
                    /\ found[k][1] \in 0..(Len(inbox) - 1)
                    /\ found[k][2] = inbox[found[k][1] + 1]
              /\ \A k, l \in DOMAIN found : k < l => found[k][1] < found[l][1]
              /\ {found[k][1] : k \in DOMAIN found} = {i \in 0..(Len(inbox) - 1) : hit(i)}
              /\ keyword = <<>> => Len(found) = Len(inbox)
              /\ \A v \in Names : ListsAfter(v) = Lists(v)]_vars

\* C9 witness: of an inbox of two messages only the second matched, through
\* its body, a keyword typed in upper case with a trailing blank.
C9_Witness ==
    /\ out.op = "search_emails" /\ out.input = << <<"C", " ">> >>
    /\ Len(Lists(out.user).inbox) = 2
    /\ Len(out.shown) = 1 /\ out.shown[1][1] = 1

\* C10: when the process has ended through a terminating choice, the
\* mailboxes file holds the whole in-memory mailbox store and the accounts file
\* the whole in-memory account store; and right after a completed registration
\* or a successful password change the accounts file holds the account store.
C10_SaveOnExit ==
    /\ pc = "exited" =>
          /\ inboxFile.exists /\ usersFile.exists
          /\ load_json(usersFile) = users
          /\ DOMAIN load_json(inboxFile) = DOMAIN inboxes
          /\ \A u \in DOMAIN inboxes : load_json(inboxFile)[u] = Lists(u)
    /\ (\/ out.op = "register_user" /\ out.result = "registered"
        \/ out.op = "change_password" /\ out.result = "updated") =>
          usersFile.exists /\ load_json(usersFile) = users

\* C10 witness: the process has ended from the logged-in menu with mail in
\* the store and two accounts.
C10_Witness ==
    /\ pc = "exited" /\ out.op = "main_menu"
    /\ heap # <<>>
    /\ Cardinality(DOMAIN users) = 2

\* C11: change_password with an old password that is not the stored one
\* changes neither the account store nor the accounts file; with the stored
\* one it replaces the entry of the logged-in user by the new password and
\* leaves every other account alone; and a login attempt for a known username
\* succeeds exactly when the typed password is the one now stored, so the new
\* password opens the account and the old one, when different, does not.
C11_ChangePassword ==
    [][/\ out'.op = "change_password" =>
            LET u == out'.user
                old == Strip(out'.input[1])
            IN  IF users[u] # old
                THEN users' = users /\ usersFile' = usersFile
                ELSE /\ Len(out'.input) = 2
                     /\ DOMAIN users' = DOMAIN users
                     /\ users'[u] = Strip(out'.input[2])
                     /\ \A v \in DOMAIN users : v # u => users'[v] = users[v]
       /\ (pc = "login" /\ Strip(out'.input[1]) \in DOMAIN users) =>
            (pc' = "menu_back" <=> users[Strip(out'.input[1])] = Strip(out'.input[2]))]_vars

\* C11 witness: the logged-in user has replaced the password p by q, typed
\* with a leading blank, while a second account exists.
C11_Witness ==
    /\ out.op = "change_password" /\ out.result = "updated"
    /\ out.input = << <<"p">>, <<" ", "q">> >>
    /\ users[out.user] = <<"q">>
    /\ Cardinality(DOMAIN users) = 2

\* C12: of two processes that loaded the same files, once both have saved
\* and ended, each file holds the in-memory store of the one that ended last
\* (the running one): an account or a mailbox only the other holds is not in
\* the file, and the last exit reported nothing but its end.
C12_LostUpdate ==
    (other # Absent /\ pc = "exited" /\ other.pc = "exited") =>
        /\ usersFile = DumpUsers(users)
        /\ inboxFile = DumpInboxes(heap, inboxes)
        /\ \A u \in DOMAIN other.users \ DOMAIN users : u \notin DOMAIN load_json(usersFile)
        /\ \A u \in DOMAIN other.inboxes \ DOMAIN inboxes : u \notin DOMAIN load_json(inboxFile)
        /\ out.result = "exit" /\ other.out.result = "exit"

\* C12 witness: both processes have ended; the first to end had registered b
\* and delivered a message to b, and neither is in the files.
C12_Witness ==
    /\ other # Absent /\ pc = "exited" /\ other.pc = "exited"
    /\ <<"b">> \in DOMAIN other.users /\ <<"b">> \notin DOMAIN load_json(usersFile)
    /\ <<"b">> \in DOMAIN other.inboxes /\ other.inboxes[<<"b">>].inbox # <<>>
    /\ <<"b">> \notin DOMAIN load_json(inboxFile)

\* Files left by an earlier session with other content: an account and a
\* mailbox the running process may not have.
OldUsersFile == DumpUsers([u \in { <<"b">> } |-> <<"z">>])

OldInboxFile ==
    DumpInboxes(<<compose_email(<<"b">>, <<"b">>, <<"z">>, <<>>, 0)>>,
                [u \in { <<"b">> } |-> [inbox |-> <<1>>, drafts |-> <<>>, sent |-> <<1>>]])

\* C13: saving either store over any file and loading the file again gives a
\* mapping equal to the saved store and nothing else, whatever the file held
\* (the file as it is, no file, or a file with other content); the loaded
\* mailbox store is the store of the process again; loading a path that does
\* not exist gives the empty mapping.  (The stores are those met at a menu
\* prompt or at the end: a handler hands its store on to the next prompt.)
C13_RoundTrip ==
    pc \in {"top", "menu", "exited"} =>
        /\ \A prior \in {usersFile, NoFile, OldUsersFile} :
              load_json(save_json(prior, DumpUsers(users))) = users
        /\ \A prior \in {inboxFile, NoFile, OldInboxFile} :
              LET data == load_json(save_json(prior, DumpInboxes(heap, inboxes))) IN
              /\ DOMAIN data = DOMAIN inboxes
              /\ \A u \in DOMAIN inboxes : data[u] = Lists(u)
              /\ LoadInboxes(data) = [heap |-> heap, boxes |-> inboxes]
        /\ load_json(NoFile) = EmptyDict

\* C13 witness: the process has saved, on exit, two accounts and a message
\* that a sent to a and b and has read; the mailboxes file did not exist
\* before, and loading it gives the three copies back.
C13_Witness ==
    /\ pc = "exited" /\ inboxFile.exists
    /\ Cardinality(DOMAIN load_json(usersFile)) = 2
    /\ DOMAIN load_json(inboxFile) = { <<"a">>, <<"b">> }
    /\ \E m \in Range(load_json(inboxFile)[<<"a">>].inbox) :
          /\ m.read /\ m.to = << <<"a">>, <<"b">> >>
          /\ load_json(inboxFile)[<<"a">>].sent = <<[m EXCEPT !.read = FALSE]>>
          /\ load_json(inboxFile)[<<"b">>].inbox = <<[m EXCEPT !.read = FALSE]>>

\* C14: delete_email with an index out of range or a text that is no number
\* leaves the whole mailbox store as it was, the read flag of every message
\* included; an unknown choice at either menu changes neither store.
C14_NoMutationOnInvalid ==
    [][/\ (out'.op = "delete_email" /\ out'.result \in {"invalid index", "not a number"}) =>
            \A u \in Names : ListsAfter(u) = Lists(u)
       /\ out'.result = "invalid choice" =>
            /\ users' = users
            /\ \A u \in Names : ListsAfter(u) = Lists(u)]_vars

\* C15: in view_drafts, for a drafts list of length n and 0 <= i < n,
\* `send i` removes exactly the draft at position i, appends a copy of it to
\* the inbox of each username of its `to` list and the draft once to the
\* sender's sent list; `del i` removes exactly the draft at position i and
\* changes no inbox and no sent list; an input that starts with neither
\* `send` nor `del` changes nothing.
C15_DraftSendDelete ==
    [][(out'.op = "view_drafts" /\ out'.input # <<>>) =>
          LET s == out'.user
              choice == out'.input[1]
              drafts == Lists(s).drafts
          IN  /\ \A i \in 0..(Len(drafts) - 1) :
                    LET d == drafts[i + 1] IN
                    /\ (choice = Send \o <<" ">> \o IntToken(i) /\ Distinct(d.to)) =>
                          /\ out'.result = "sent"
                          /\ \A u \in Names :
                                /\ ListsAfter(u).drafts = IF u = s THEN RemoveAt(drafts, i + 1)
                                                          ELSE Lists(u).drafts
                                /\ ListsAfter(u).sent = IF u = s THEN Append(Lists(u).sent, d)
                                                        ELSE Lists(u).sent
                                /\ ListsAfter(u).inbox = IF u \in Range(d.to)
                                                         THEN Append(Lists(u).inbox, d)
                                                         ELSE Lists(u).inbox
                          /\ Range(d.to) \subseteq DOMAIN inboxes'
                    /\ choice = Del \o <<" ">> \o IntToken(i) =>
                          /\ out'.result = "deleted"
                          /\ \A u \in Names :
                                /\ ListsAfter(u).drafts = IF u = s THEN RemoveAt(drafts, i + 1)
                                                          ELSE Lists(u).drafts
                                /\ ListsAfter(u).sent = Lists(u).sent
                                /\ ListsAfter(u).inbox = Lists(u).inbox
              /\ (~StartsWith(choice, Send) /\ ~StartsWith(choice, Del)) =>
                    \A u \in Names : ListsAfter(u) = Lists(u)]_vars

\* C15 witness: of two different drafts the first was sent, to b (who had no
\* mailbox) among others; the second is still a draft.
C15_Witness ==
    /\ out.op = "view_drafts" /\ out.result = "sent"
    /\ out.input = <<Send \o <<" ", "0">> >>
    /\ Len(Lists(out.user).drafts) = 1
    /\ Len(Lists(out.user).sent) = 1
    /\ Lists(out.user).sent[1] # Lists(out.user).drafts[1]
    /\ Lists(<<"b">>).inbox = Lists(out.user).sent

\* The capital of a letter of "send" or "draft".
Capital(c) ==
    CASE c = "a" -> "A" [] c = "d" -> "D" [] c = "e" -> "E" [] c = "f" -> "F"
      [] c = "n" -> "N" [] c = "r" -> "R" [] c = "s" -> "S" [] c = "t" -> "T"

\* typed is the word w in some letter case, with blanks around it or not.
Spells(typed, w) ==
    /\ Len(Strip(typed)) = Len(w)
    /\ \A i \in DOMAIN w : Strip(typed)[i] \in {w[i], Capital(w[i])}

\* C16: a compose whose action is "draft", in any letter case, appends exactly
\* one entry to the sender's drafts list, changes no inbox and no sent list
\* and creates no mailbox; an action that is neither "send" nor "draft" leaves
\* the mailbox store as it was.
C16_ComposeDispatch ==
    [][out'.op = "send_email" =>
          LET s == out'.user
              typed == out'.input[1]
              drafts == ListsAfter(s).drafts
          IN  /\ Spells(typed, Draft) =>
                    /\ out'.result = "draft"
                    /\ drafts # <<>>
                    /\ drafts = Append(Lists(s).drafts, drafts[Len(drafts)])
                    /\ drafts[Len(drafts)].from = s
                    /\ \A u \in Names :
                          /\ ListsAfter(u).inbox = Lists(u).inbox
                          /\ ListsAfter(u).sent = Lists(u).sent
                          /\ u # s => ListsAfter(u).drafts = Lists(u).drafts
                    /\ DOMAIN inboxes' = DOMAIN inboxes
              /\ (~Spells(typed, Send) /\ ~Spells(typed, Draft)) =>
                    /\ out'.result = "invalid"
                    /\ inboxes' = inboxes /\ heap' = heap]_vars

\* C16 witness: a message to b and a was saved as a draft by the action
\* "Draft " while b had no mailbox, and b still has none.
C16_Witness ==
    /\ out.op = "send_email" /\ out.result = "draft"
    /\ out.input = << <<"D", "r", "a", "f", "t", " ">> >>
    /\ Lists(out.user).drafts # <<>>
    /\ Lists(out.user).drafts[Len(Lists(out.user).drafts)].to = << <<"b">>, <<"a">> >>
    /\ <<"b">> \notin DOMAIN inboxes

\* C17: no step but the two terminating choices writes the mailboxes file;
\* so while the process has not ended that way the mailboxes file is as it
\* was at startup (it does not exist), whatever has happened to the
\* mailboxes, while the accounts file holds every account of the session.
C17_InboxFileOnlyOnExit ==
    /\ [][pc' # "exited" => inboxFile' = inboxFile]_vars
    /\ [](pc # "exited" => (inboxFile = NoFile /\ load_json(usersFile) = users))

\* C17 witness: two accounts were registered and mail delivered and read in
\* this session, which has not ended: the accounts are in their file, and
\* there is no mailboxes file.
C17_Witness ==
    /\ pc = "menu"
    /\ \E r \in DOMAIN heap : heap[r].read
    /\ Cardinality(DOMAIN load_json(usersFile)) = 2
    /\ ~inboxFile.exists

\* C18: ensuring the mailbox of a username that has one changes nothing; no
\* step removes a mailbox owner or an account; a registration changes no
\* mailbox, and the login that follows finds in every mailbox, that of the new
\* user included, exactly the lists it held before (mail delivered to the
\* name before it was registered is there at its first login).
C18_LazyMailbox ==
    /\ [](\A u \in DOMAIN inboxes : ensure_user_box(u, inboxes) = inboxes)
    /\ [][/\ DOMAIN inboxes \subseteq DOMAIN inboxes'
          /\ DOMAIN users \subseteq DOMAIN users'
          /\ out'.op \in {"register_user", "login"} =>
                \A u \in Names : ListsAfter(u) = Lists(u)
          /\ (out'.op = "login" /\ out'.result = "ok") =>
                out'.user \in DOMAIN inboxes']_vars

\* C18 witness: b has logged in, the mailbox of b was ensured while it held
\* a message delivered by a, and the message is still there, unread.
C18_Witness ==
    /\ out.op = "login" /\ out.result = "ok" /\ out.user = <<"b">>
    /\ Len(Lists(<<"b">>).inbox) = 1
    /\ Lists(<<"b">>).inbox[1].from = <<"a">>
    /\ ~Lists(<<"b">>).inbox[1].read
    /\ Lists(<<"b">>).sent = <<>>

\* C19: when delete_email removes a message for an index i in range, the
\* message removed (the one stored at position i) is the message its own
\* listing showed at [i].
C19_DisplayedIndex ==
    [][(out'.op = "delete_email" /\ out'.result = "deleted") =>
          LET inbox == Lists(out'.user).inbox
              shown == out'.shown
          IN  \A i \in 0..(Len(inbox) - 1) :
                 Denotes(out'.input[1], i) =>
                    /\ ListsAfter(out'.user).inbox = RemoveAt(AllRead(inbox), i + 1)
                    /\ inbox[i + 1] = inbox[shown[i + 1]]]_vars

\* C20: from an empty mailbox store, every message of inbox[u] names u in its
\* `to` list, every message of sent[u] and of drafts[u] is from u, every
\* message of a drafts or sent list is unread, and every mailbox has exactly
\* the lists inbox, drafts and sent.
C20_Provenance ==
    \A u \in DOMAIN inboxes :
       /\ DOMAIN inboxes[u] = {"inbox", "drafts", "sent"}
       /\ \A m \in Range(Lists(u).inbox) : u \in Range(m.to)
       /\ \A m \in Range(Lists(u).sent) \cup Range(Lists(u).drafts) :
             m.from = u /\ m.read = FALSE

\* C20 witness: a has listed an inbox with a message in it and holds a draft
\* and a sent message; b holds a delivered copy.
C20_Witness ==
    /\ out.op = "view_inbox"
    /\ \E m \in Range(Lists(<<"a">>).inbox) : m.read
    /\ Lists(<<"a">>).drafts # <<>>
    /\ Lists(<<"a">>).sent # <<>>
    /\ Lists(<<"b">>).inbox # <<>>
====
